---- MODULE Spec2Model ----
(***************************************************************************)
(* Evict-BT: the issue timeline (src/evict/issue.rs), its JSON codec and   *)
(* the argument fold of the comment command (src/evict/commands/comment.rs)*)
(***************************************************************************)
EXTENDS Integers, Sequences, FiniteSets, TLC

VARIABLES
  issue,        \* the Issue under test (timeline queries, mutators)
  other,        \* a second Issue (equality)
  clock,        \* the wall clock read by time::get_time / time::now
  json,         \* the JSON value handed to a decoder
  pc,           \* position of the running operation
  comment_out,  \* result of IssueComment::read_from_map
  tag_out,      \* result of IssueTag::read_from_map
  events_out,   \* the Vec collected by Issue::load_events
  bare_out,     \* IssueTimelineEvent::from_json of a bare payload
  wrapped_out,  \* IssueTimelineEvent::from_json of ["comment", payload]
  issue_out,    \* result of Issue::from_json
  args,         \* the argument vector of new_comment
  iter,         \* how many tokens args.into_iter() has yielded
  issues,       \* the collection new_comment holds between read and write
  stateMachine, \* the accumulator held by fsm::StateMachine
  finalFlags,   \* the accumulator extracted after the fold
  ret,          \* exit status of new_comment
  store         \* the issue store: contents and access counters

vars == <<issue, other, clock, json, pc, comment_out, tag_out, events_out,
          bare_out, wrapped_out, issue_out, args, iter, issues, stateMachine, finalFlags,
          ret, store>>

----------------------------------------------------------------------------
(* Bounds of the model *)

MaxEvents == 3      \* events appended to the Issue under test
MaxEqEvents == 2    \* events appended to the two Issues compared for equality
MaxTime == 2        \* instants a time::Tm is drawn from, two to the second
MaxClock == 2       \* readings of the wall clock
MaxEntries == 2     \* entries of a persisted timeline array
MaxArgs == 3        \* tokens on the command line

----------------------------------------------------------------------------
(* Values *)

TagNames == {"x", "y"}
Authors == {"Author"}
Titles == {"Foo", "X"}
Bodies == {"Body", ""}
Branches == {"master"}

\* time::Tm, reduced to what to_timespec and strftime read
Tms == {[sec |-> t \div 2, nsec |-> t % 2] : t \in 0..MaxTime}

\* the whole seconds of Tms
Secs == {tm.sec : tm \in Tms}

\* Option<T>
None == [some |-> FALSE]
Some(v) == [some |-> TRUE, v |-> v]

\* time::Tm::to_timespec and the ordering of Timespec (sec, then nsec)
to_timespec(tm) == <<tm.sec, tm.nsec>>
timespec_lt(a, b) == a[1] < b[1] \/ (a[1] = b[1] /\ a[2] < b[2])

\* time::empty_tm(): the zero broken-down time (year 1900)
empty_tm == [sec |-> -1, nsec |-> 0]

DEFAULT_STATUS_NAME == "open"

IssueStatus_default == [name |-> DEFAULT_STATUS_NAME, last_change_time |-> empty_tm]

\* the payload of the variant that an event is not
NoComment ==
  [creation_time |-> empty_tm, author |-> "", body_text |-> "", branch |-> "", id |-> ""]
NoTag ==
  [time |-> empty_tm, tag_name |-> "", enabled |-> FALSE, author |-> "", change_id |-> ""]

\* enum IssueTimelineEvent
TimelineComment(c) == [kind |-> "comment", comment |-> c, tag |-> NoTag]
TimelineTag(t) == [kind |-> "tag", comment |-> NoComment, tag |-> t]

\* IssueTimelineEvent::time
event_time(evt) == IF evt.kind = "comment" THEN evt.comment.creation_time ELSE evt.tag.time

\* Vec::contains
Contains(vec, x) == \E i \in 1..Len(vec) : vec[i] = x

----------------------------------------------------------------------------
(* Issue: mutators and timeline queries *)

\* add_tag inserting at the front of the timeline instead of pushing
add_tag_front(self, tag) ==
  [self EXCEPT !.events = <<TimelineTag(tag)>> \o self.events]

add_comment(self, comment) ==
  [self EXCEPT !.events = Append(self.events, TimelineComment(comment))]

add_tag(self, tag) ==
  [self EXCEPT !.events = Append(self.events, TimelineTag(tag))]

\* the loop body of most_recent_tag_for_name with <= for <: a tie goes to the
\* later event
mrt_step_tie_later(events, i, name, recent) ==
  IF events[i].kind = "tag" /\ events[i].tag.tag_name = name
  THEN IF recent = 0
       THEN i
       ELSE IF ~timespec_lt(to_timespec(events[i].tag.time),
                            to_timespec(events[recent].tag.time))
            THEN i
            ELSE recent
  ELSE recent

\* the loop body of most_recent_tag_for_name without the comparison of times:
\* the first Tag event of the name is kept
mrt_step_first_seen(events, i, name, recent) ==
  IF events[i].kind = "tag" /\ events[i].tag.tag_name = name
  THEN IF recent = 0 THEN i ELSE recent
  ELSE recent

\* One iteration of the loop of most_recent_tag_for_name. `recent` is the
\* position of the referenced tag in self.events, 0 for None.
mrt_step(events, i, name, recent) ==
  IF events[i].kind = "tag" /\ events[i].tag.tag_name = name
  THEN IF recent = 0
       THEN i
       ELSE IF timespec_lt(to_timespec(events[recent].tag.time),
                           to_timespec(events[i].tag.time))
            THEN i
            ELSE recent
  ELSE recent

RECURSIVE mrt_loop(_, _, _, _)
mrt_loop(events, i, name, recent) ==
  IF i > Len(events) THEN recent
  ELSE mrt_loop(events, i + 1, name, mrt_step(events, i, name, recent))

most_recent_tag_for_name(self, name) == mrt_loop(self.events, 1, name, 0)

\* The loop of all_tags over self.events.iter().rev(); i runs from Len down to 1.
RECURSIVE all_tags_loop(_, _, _, _)
all_tags_loop(events, i, untagged, tag_list) ==
  IF i = 0 THEN tag_list
  ELSE LET evt == events[i] IN
       IF evt.kind = "tag"
       THEN LET is_untag == Contains(untagged, evt.tag.tag_name) IN
            IF ~is_untag /\ evt.tag.enabled
            THEN all_tags_loop(events, i - 1, untagged, Append(tag_list, evt.tag.tag_name))
            ELSE IF ~is_untag /\ ~evt.tag.enabled
                 THEN all_tags_loop(events, i - 1, Append(untagged, evt.tag.tag_name), tag_list)
                 ELSE all_tags_loop(events, i - 1, untagged, tag_list)
       ELSE all_tags_loop(events, i - 1, untagged, tag_list)

\* all_tags scanning oldest first: the first toggle of a name decides
RECURSIVE all_tags_fwd_loop(_, _, _, _)
all_tags_fwd_loop(events, i, untagged, tag_list) ==
  IF i > Len(events) THEN tag_list
  ELSE LET evt == events[i] IN
       IF evt.kind = "tag"
       THEN LET is_untag == Contains(untagged, evt.tag.tag_name) IN
            IF ~is_untag /\ evt.tag.enabled
            THEN all_tags_fwd_loop(events, i + 1, untagged, Append(tag_list, evt.tag.tag_name))
            ELSE IF ~is_untag /\ ~evt.tag.enabled
                 THEN all_tags_fwd_loop(events, i + 1, Append(untagged, evt.tag.tag_name), tag_list)
                 ELSE all_tags_fwd_loop(events, i + 1, untagged, tag_list)
       ELSE all_tags_fwd_loop(events, i + 1, untagged, tag_list)

all_tags_forward(self) == all_tags_fwd_loop(self.events, 1, <<>>, <<>>)

all_tags(self) == all_tags_loop(self.events, Len(self.events), <<>>, <<>>)

\* impl PartialEq for Issue
issue_eq_title(self, o) == self.id = o.id /\ self.title = o.title

issue_eq(self, o) == self.id = o.id


\* generate_id: format!("{}{}", ctime.sec, ctime.nsec)
generate_id(ctime) == ToString(ctime.sec) \o ToString(ctime.nsec)

\* time::now(): the broken-down time of the clock reading
now(ctime) == [sec |-> ctime.sec, nsec |-> ctime.nsec]

\* Issue::new; branch is vcs_status::current_branch().unwrap_or("<unknown>"),
\* t_id and t_now are the clock readings of generate_id() and time::now()
Issue_new(title, body, author, branch, t_id, t_now) ==
  [title |-> title, body_text |-> body, author |-> author,
   id |-> generate_id(t_id), creation_time |-> now(t_now),
   events |-> <<>>, branch |-> branch, status |-> IssueStatus_default]

\* IssueComment::new
IssueComment_new(author, body, branch, t_now, t_id) ==
  [author |-> author, body_text |-> body, creation_time |-> now(t_now),
   branch |-> branch, id |-> generate_id(t_id)]

----------------------------------------------------------------------------
(* JSON values *)

BODY_KEY == "bodyText"
TIME_KEY == "time"
AUTHOR_KEY == "author"
TITLE_KEY == "title"
ID_KEY == "id"
VERSION_KEY == "evict-version"
BRANCH_KEY == "branch"
NAME_KEY == "name"
ENABLED_KEY == "enabled"

Keys == {BODY_KEY, TIME_KEY, AUTHOR_KEY, TITLE_KEY, ID_KEY, VERSION_KEY,
         BRANCH_KEY, NAME_KEY, ENABLED_KEY}

\* What json::Object::get(key) finds under a key: nothing, a Json::String, a
\* Json::Boolean, or a Json of another kind (number, null, array, object).
Absent == [ty |-> "Absent", s |-> "", b |-> FALSE]
JString(s) == [ty |-> "String", s |-> s, b |-> FALSE]
JBoolean(b) == [ty |-> "Boolean", s |-> "", b |-> b]
JNumber == [ty |-> "Number", s |-> "", b |-> FALSE]

EmptyMap == [k \in Keys |-> Absent]

\* A Json value where a whole value is decoded: Json::Object(map),
\* Json::Array(list), Json::String(s), or another kind.
JObj(map) == [ty |-> "Object", s |-> "", map |-> map, list |-> <<>>]
JArr(list) == [ty |-> "Array", s |-> "", map |-> EmptyMap, list |-> list]
JStr(s) == [ty |-> "String", s |-> s, map |-> EmptyMap, list |-> <<>>]
JNum == [ty |-> "Number", s |-> "", map |-> EmptyMap, list |-> <<>>]

get_string_for_key(map, key) ==
  IF map[key].ty = "String" THEN Some(map[key].s) ELSE None

----------------------------------------------------------------------------
(* Times as text: TIME_FORMAT = "%F %Y at %T" *)

EmptyTmText == "1900-01-00 1900 at 00:00:00"

\* time::strftime(TIME_FORMAT, tm): date, year and time of day to the whole
\* second; the nanoseconds are not written.
strftime(tm) ==
  IF tm = empty_tm THEN EmptyTmText
  ELSE "1970-01-01 1970 at 00:00:0" \o ToString(tm.sec)

\* time::strptime(text, TIME_FORMAT): Ok(tm) with tm_nsec = 0 for a text of
\* the format, Err otherwise (day 00 of EmptyTmText is out of range).
strptime(text) ==
  IF \E sec \in Secs : text = strftime([sec |-> sec, nsec |-> 0])
  THEN [ok |-> TRUE,
        tm |-> [sec |-> CHOOSE sec \in Secs : text = strftime([sec |-> sec, nsec |-> 0]),
                nsec |-> 0]]
  ELSE [ok |-> FALSE, tm |-> empty_tm]

----------------------------------------------------------------------------
(* Event payload decoders *)

\* IssueComment::read_from_map; ctime is the clock reading of generate_id()
IssueComment_read_from_map(map, ctime) ==
  LET body_opt == get_string_for_key(map, BODY_KEY)
      author_opt == get_string_for_key(map, AUTHOR_KEY)
      branch_opt == get_string_for_key(map, BRANCH_KEY)
      time_opt == get_string_for_key(map, TIME_KEY)
      id_opt == get_string_for_key(map, ID_KEY)
  IN  IF ~body_opt.some THEN None
      ELSE IF ~author_opt.some THEN None
      ELSE IF ~branch_opt.some THEN None
      ELSE IF ~time_opt.some THEN None
      ELSE LET time_result == strptime(time_opt.v) IN
           IF time_result.ok
           THEN Some([body_text |-> body_opt.v,
                      author |-> author_opt.v,
                      creation_time |-> time_result.tm,
                      branch |-> branch_opt.v,
                      id |-> IF id_opt.some THEN id_opt.v ELSE generate_id(ctime)])
           ELSE None

\* read_enabled that takes a missing or mistyped flag for false
read_enabled_lenient(map) ==
  IF map[ENABLED_KEY].ty = "Boolean" THEN Some(map[ENABLED_KEY].b) ELSE Some(FALSE)

\* IssueTag::read_enabled
read_enabled(map) ==
  IF map[ENABLED_KEY].ty = "Boolean" THEN Some(map[ENABLED_KEY].b) ELSE None

\* IssueTag::read_from_map
IssueTag_read_from_map(map) ==
  LET name_opt == get_string_for_key(map, NAME_KEY)
      author_opt == get_string_for_key(map, AUTHOR_KEY)
      enabled_opt == read_enabled(map)
      id_opt == get_string_for_key(map, ID_KEY)
      time_opt == get_string_for_key(map, TIME_KEY)
  IN  IF ~name_opt.some THEN None
      ELSE IF ~author_opt.some THEN None
      ELSE IF ~enabled_opt.some THEN None
      ELSE IF ~id_opt.some THEN None
      ELSE IF ~time_opt.some THEN None
      ELSE LET timeResult == strptime(time_opt.v) IN
           IF timeResult.ok
           THEN Some([time |-> timeResult.tm,
                      author |-> author_opt.v,
                      enabled |-> enabled_opt.v,
                      change_id |-> id_opt.v,
                      tag_name |-> name_opt.v])
           ELSE None

\* IssueComment::from_json, IssueTag::from_json
IssueComment_from_json(j, ctime) ==
  IF j.ty = "Object" THEN IssueComment_read_from_map(j.map, ctime) ELSE None

IssueTag_from_json(j) ==
  IF j.ty = "Object" THEN IssueTag_read_from_map(j.map) ELSE None

\* .map(|x| TimelineComment(x)) and .map(|x| TimelineTag(x))
map_TimelineComment(opt) == IF opt.some THEN Some(TimelineComment(opt.v)) ELSE None
map_TimelineTag(opt) == IF opt.some THEN Some(TimelineTag(opt.v)) ELSE None

\* IssueTimelineEvent::from_json without the length test on the pair
IssueTimelineEvent_from_json_any_len(j, ctime) ==
  IF j.ty = "Array"
  THEN IF Len(j.list) < 2
       THEN None
       ELSE IF j.list[1].ty = "String" /\ j.list[1].s = "comment"
            THEN map_TimelineComment(IssueComment_from_json(j.list[2], ctime))
            ELSE IF j.list[1].ty = "String" /\ j.list[1].s = "tag"
                 THEN map_TimelineTag(IssueTag_from_json(j.list[2]))
                 ELSE None
  ELSE map_TimelineComment(IssueComment_from_json(j, ctime))

\* IssueTimelineEvent::from_json without the branch for the old bare comments
IssueTimelineEvent_from_json_no_legacy(j, ctime) ==
  IF j.ty = "Array"
  THEN IF Len(j.list) # 2
       THEN None
       ELSE IF j.list[1].ty = "String" /\ j.list[1].s = "comment"
            THEN map_TimelineComment(IssueComment_from_json(j.list[2], ctime))
            ELSE IF j.list[1].ty = "String" /\ j.list[1].s = "tag"
                 THEN map_TimelineTag(IssueTag_from_json(j.list[2]))
                 ELSE None
  ELSE None

\* IssueTimelineEvent::from_json
IssueTimelineEvent_from_json(j, ctime) ==
  IF j.ty = "Array"
  THEN IF Len(j.list) # 2
       THEN None
       ELSE IF j.list[1].ty = "String" /\ j.list[1].s = "comment"
            THEN map_TimelineComment(IssueComment_from_json(j.list[2], ctime))
            ELSE IF j.list[1].ty = "String" /\ j.list[1].s = "tag"
                 THEN map_TimelineTag(IssueTag_from_json(j.list[2]))
                 ELSE None
  ELSE \* really old versions had comments only and did not use list format
       map_TimelineComment(IssueComment_from_json(j, ctime))

\* list.iter().filter_map(IssueTimelineEvent::from_json).collect(), from entry
\* i on; reads[i] is the clock's nanosecond when entry i is decoded
RECURSIVE filter_map_from_json(_, _, _)
filter_map_from_json(list, i, reads) ==
  IF i > Len(list) THEN <<>>
  ELSE LET evt == IssueTimelineEvent_from_json(list[i], [sec |-> 0, nsec |-> reads[i]])
       IN  (IF evt.some THEN <<evt.v>> ELSE <<>>)
             \o filter_map_from_json(list, i + 1, reads)

\* Issue::load_events
load_events(j, reads) ==
  IF j.ty = "Array" THEN filter_map_from_json(j.list, 1, reads) ELSE <<>>

----------------------------------------------------------------------------
(* Issue envelope: encode and decode *)

CURRENT_VERSION == 1

\* the "status" entry of the envelope sits beside the scalar entries
IssueJson(map, status) ==
  [ty |-> "Object", s |-> "", map |-> map, list |-> <<>>, status |-> status]

\* what a call that may panic! or unwrap() a None comes to
Returned(opt) == [panic |-> FALSE, value |-> opt]
Panicked == [panic |-> TRUE, value |-> None]
NoOutcome == Returned(None)

\* impl ToJson for IssueStatus
IssueStatus_to_json(st) ==
  JObj([EmptyMap EXCEPT ![NAME_KEY] = JString(st.name),
                        ![TIME_KEY] = JString(strftime(st.last_change_time))])

\* IssueStatus::from_json
IssueStatus_from_json(j) ==
  IF j.ty = "Object"
  THEN LET name_opt == get_string_for_key(j.map, NAME_KEY)
           time_opt == get_string_for_key(j.map, TIME_KEY)
       IN  IF name_opt.some /\ time_opt.some /\ strptime(time_opt.v).ok
           THEN [name |-> name_opt.v, last_change_time |-> strptime(time_opt.v).tm]
           ELSE IssueStatus_default
  ELSE IssueStatus_default

\* no_comment_json that leaves the branch out
no_comment_json_no_branch(self) ==
  IssueJson([EmptyMap EXCEPT
               ![VERSION_KEY] = JString(ToString(CURRENT_VERSION)),
               ![TITLE_KEY] = JString(self.title),
               ![TIME_KEY] = JString(strftime(self.creation_time)),
               ![AUTHOR_KEY] = JString(self.author),
               ![ID_KEY] = JString(self.id)],
            Some(IssueStatus_to_json(self.status)))

\* Issue::no_comment_json
no_comment_json(self) ==
  IssueJson([EmptyMap EXCEPT
               ![VERSION_KEY] = JString(ToString(CURRENT_VERSION)),
               ![TITLE_KEY] = JString(self.title),
               ![TIME_KEY] = JString(strftime(self.creation_time)),
               ![AUTHOR_KEY] = JString(self.author),
               ![ID_KEY] = JString(self.id),
               ![BRANCH_KEY] = JString(self.branch)],
            Some(IssueStatus_to_json(self.status)))

\* isize::from_str_radix(text, 10)
from_str_radix(text) ==
  IF \E n \in 0..9 : text = ToString(n)
  THEN Some(CHOOSE n \in 0..9 : text = ToString(n))
  ELSE None

\* Issue::read_from_map
Issue_read_from_map(j) ==
  LET map == j.map
      version_opt == get_string_for_key(map, VERSION_KEY)
  IN  IF ~version_opt.some
      THEN Panicked                       \* panic!("No version on json ...")
      ELSE IF ~from_str_radix(version_opt.v).some
      THEN Panicked                       \* unwrap() of the Err
      ELSE IF from_str_radix(version_opt.v).v = 1
      THEN LET title_opt == get_string_for_key(map, TITLE_KEY)
               author_opt == get_string_for_key(map, AUTHOR_KEY)
               branch_opt == get_string_for_key(map, BRANCH_KEY)
               id_opt == get_string_for_key(map, ID_KEY)
               status == IF j.status.some THEN IssueStatus_from_json(j.status.v)
                         ELSE IssueStatus_default
               time_opt == get_string_for_key(map, TIME_KEY)
           IN  IF ~title_opt.some THEN Returned(None)
               ELSE IF ~author_opt.some THEN Returned(None)
               ELSE IF ~branch_opt.some THEN Returned(None)
               ELSE IF ~id_opt.some THEN Returned(None)
               ELSE IF ~time_opt.some THEN Returned(None)
               ELSE IF strptime(time_opt.v).ok
               THEN Returned(Some([title |-> title_opt.v, body_text |-> "",
                                   author |-> author_opt.v,
                                   creation_time |-> strptime(time_opt.v).tm,
                                   id |-> id_opt.v, events |-> <<>>,
                                   branch |-> branch_opt.v, status |-> status]))
               ELSE Returned(None)
      ELSE Returned(None)

\* date_sort::sort_by_time: the issues ordered by creation time
RECURSIVE sort_by_time(_)
sort_by_time(list) ==
  IF Len(list) <= 1 THEN list
  ELSE LET first == CHOOSE i \in 1..Len(list) :
                      \A k \in 1..Len(list) :
                        /\ ~timespec_lt(to_timespec(list[k].creation_time),
                                        to_timespec(list[i].creation_time))
                        /\ (k < i => timespec_lt(to_timespec(list[i].creation_time),
                                                 to_timespec(list[k].creation_time)))
           rest == [k \in 1..Len(list) - 1 |->
                      IF k < first THEN list[k] ELSE list[k + 1]]
       IN  <<list[first]>> \o sort_by_time(rest)

\* Issue::from_json
Issue_from_json(j) ==
  LET read == IF j.ty = "Object" THEN Issue_read_from_map(j) ELSE Returned(None)
  IN  IF read.panic THEN Panicked
      ELSE IF read.value.some
           THEN LET sorted == sort_by_time(<<read.value.v>>)
                IN  Returned(Some(sorted[Len(sorted)]))
           ELSE Returned(None)

----------------------------------------------------------------------------
(* Inputs of the mutators *)

Comments ==
  [creation_time : Tms, author : Authors, body_text : {"Body"},
   branch : Branches, id : {"c1"}]

Tags ==
  [time : Tms, tag_name : TagNames, enabled : BOOLEAN, author : Authors,
   change_id : {"t1"}]

Clock0 == [sec |-> 0, nsec |-> 0]
Clocks == [sec : {0}, nsec : 0..MaxClock]

NoFlags == [issueIdPart |-> None]
NoStore == [disk |-> <<>>, reads |-> 0, writes |-> 0]

\* the variables an operation under test does not use
Idle ==
  /\ json = "none" /\ pc = "idle"
  /\ comment_out = None /\ tag_out = None /\ events_out = <<>>
  /\ bare_out = None /\ wrapped_out = None /\ issue_out = NoOutcome
  /\ args = <<>> /\ iter = 0 /\ issues = <<>> /\ stateMachine = NoFlags /\ finalFlags = NoFlags
  /\ ret = -1 /\ store = NoStore

----------------------------------------------------------------------------
(* Spec: one Issue and its timeline *)

Init ==
  /\ issue = Issue_new("Foo", "Body", "Author", "master", Clock0, Clock0)
  /\ other = Issue_new("X", "Y", "Z", "master", Clock0, Clock0)
  /\ clock = Clock0
  /\ Idle

AddComment ==
  /\ Len(issue.events) < MaxEvents
  /\ \E c \in Comments : issue' = add_comment(issue, c)
  /\ UNCHANGED <<other, clock, json, pc, comment_out, tag_out, events_out,
                 bare_out, wrapped_out, issue_out, args, iter, issues, stateMachine,
                 finalFlags, ret, store>>

AddTag ==
  /\ Len(issue.events) < MaxEvents
  /\ \E t \in Tags : issue' = add_tag(issue, t)
  /\ UNCHANGED <<other, clock, json, pc, comment_out, tag_out, events_out,
                 bare_out, wrapped_out, issue_out, args, iter, issues, stateMachine,
                 finalFlags, ret, store>>

Next == AddComment \/ AddTag

Spec == Init /\ [][Next]_vars

----------------------------------------------------------------------------
(* SpecEq: two Issues made by Issue::new, each growing its own timeline *)

InitEq ==
  /\ \E c1 \in Clocks, c2 \in Clocks :
       /\ issue = Issue_new("A", "B", "C", "master", c1, c1)
       /\ other = Issue_new("X", "Y", "Z", "master", c2, c2)
       /\ clock = c2
  /\ Idle

EqRoom == Len(issue.events) + Len(other.events) < MaxEqEvents

AddCommentOther ==
  /\ EqRoom
  /\ \E c \in Comments : other' = add_comment(other, c)
  /\ UNCHANGED <<issue, clock, json, pc, comment_out, tag_out, events_out,
                 bare_out, wrapped_out, issue_out, args, iter, issues, stateMachine,
                 finalFlags, ret, store>>

AddTagOther ==
  /\ EqRoom
  /\ \E t \in Tags : other' = add_tag(other, t)
  /\ UNCHANGED <<issue, clock, json, pc, comment_out, tag_out, events_out,
                 bare_out, wrapped_out, issue_out, args, iter, issues, stateMachine,
                 finalFlags, ret, store>>

NextEq ==
  \/ (EqRoom /\ AddComment)
  \/ (EqRoom /\ AddTag)
  \/ AddCommentOther
  \/ AddTagOther

SpecEq == InitEq /\ [][NextEq]_vars

----------------------------------------------------------------------------
(* Timeline properties *)

Tag_at(self, i) == self.events[i].kind = "tag"

\* positions of the Tag events named n
TagPositions(self, n) ==
  {i \in 1..Len(self.events) : Tag_at(self, i) /\ self.events[i].tag.tag_name = n}

Max(S) == CHOOSE m \in S : \A k \in S : k <= m

\* the events are in non-decreasing chronological order
TimeSorted(self) ==
  \A i \in 1..Len(self.events) - 1 :
    ~timespec_lt(to_timespec(event_time(self.events[i + 1])),
                 to_timespec(event_time(self.events[i])))

Occurrences(vec, x) == Cardinality({i \in 1..Len(vec) : vec[i] = x})

\* C1: on a time-sorted timeline all_tags() lists each tag name at most once.
C1_AllTagsNoDuplicates ==
  TimeSorted(issue) => \A n \in TagNames : Occurrences(all_tags(issue), n) <= 1

\* C2: on a time-sorted timeline a name is in all_tags() exactly when the last
\* Tag event of that name is enabled; Comment events change nothing.
C2_AllTagsIsLastToggle ==
  TimeSorted(issue) =>
    \A n \in TagNames :
      Contains(all_tags(issue), n)
        <=> (TagPositions(issue, n) # {}
             /\ issue.events[Max(TagPositions(issue, n))].tag.enabled)

\* a sorted timeline where y was enabled and is now disabled, x is enabled,
\* and a Comment sits between the toggles
C2_Witness ==
  /\ TimeSorted(issue)
  /\ Len(issue.events) = 3
  /\ issue.events[1].kind = "tag" /\ issue.events[1].tag.tag_name = "y"
  /\ issue.events[1].tag.enabled
  /\ issue.events[2].kind = "comment"
  /\ issue.events[3].kind = "tag" /\ issue.events[3].tag.tag_name = "y"
  /\ ~issue.events[3].tag.enabled
  /\ ~Contains(all_tags(issue), "y")

\* C3: most_recent_tag_for_name(n) is None when no Tag event is named n, and
\* otherwise the first Tag event named n, in iteration order, among those of
\* the greatest timestamp; other names and Comments do not matter.
C3_MostRecentTag ==
  \A n \in TagNames :
    LET r == most_recent_tag_for_name(issue, n)
        P == TagPositions(issue, n)
        ts(i) == to_timespec(issue.events[i].tag.time)
    IN  /\ (P = {}) <=> (r = 0)
        /\ P # {} =>
             /\ r \in P
             /\ \A j \in P : ~timespec_lt(ts(r), ts(j))
             /\ \A j \in P : j < r => timespec_lt(ts(j), ts(r))

\* two Tag events A, B of one name at the same timestamp: A is returned
C3_Witness ==
  /\ Len(issue.events) = 3
  /\ issue.events[1].kind = "tag" /\ issue.events[1].tag.tag_name = "y"
  /\ issue.events[2].kind = "tag" /\ issue.events[2].tag.tag_name = "x"
  /\ issue.events[3].kind = "tag" /\ issue.events[3].tag.tag_name = "x"
  /\ issue.events[2].tag.time = issue.events[3].tag.time
  /\ issue.events[2].tag.enabled # issue.events[3].tag.enabled
  /\ most_recent_tag_for_name(issue, "x") = 2

\* n is a tag according to most_recent_tag_for_name
MostRecentEnabled(self, n) ==
  LET r == most_recent_tag_for_name(self, n)
  IN  r # 0 /\ self.events[r].tag.enabled

\* Tag events of one name at one timestamp carry one enabled flag
TiesShareFlag(self) ==
  \A n \in TagNames :
    \A i, j \in TagPositions(self, n) :
      self.events[i].tag.time = self.events[j].tag.time
        => self.events[i].tag.enabled = self.events[j].tag.enabled

\* C12 as stated: on every time-sorted timeline, ties of one name included, a
\* name is in all_tags() exactly when most_recent_tag_for_name returns an
\* enabled Tag event for it.
C12_TagQueriesAgree ==
  TimeSorted(issue) =>
    \A n \in TagNames :
      Contains(all_tags(issue), n) <=> MostRecentEnabled(issue, n)

\* C12 amended: on a time-sorted timeline where the Tag events of one name
\* that share a timestamp also share the enabled flag, a name is in
\* all_tags() exactly when most_recent_tag_for_name returns an enabled Tag
\* event for it.
C12_TagQueriesAgreeOnEqualTies ==
  (TimeSorted(issue) /\ TiesShareFlag(issue)) =>
    \A n \in TagNames :
      Contains(all_tags(issue), n) <=> MostRecentEnabled(issue, n)

\* x disabled, then enabled twice at one later timestamp: both queries say x
\* is a tag, most_recent_tag_for_name by the first of the tied events
C12_Witness ==
  /\ TimeSorted(issue) /\ TiesShareFlag(issue)
  /\ Len(issue.events) = 3
  /\ TagPositions(issue, "x") = {1, 2, 3}
  /\ ~issue.events[1].tag.enabled
  /\ issue.events[2].tag.enabled /\ issue.events[3].tag.enabled
  /\ issue.events[1].tag.time # issue.events[2].tag.time
  /\ issue.events[2].tag.time = issue.events[3].tag.time
  /\ most_recent_tag_for_name(issue, "x") = 2
  /\ Contains(all_tags(issue), "x")

\* C7: a == b exactly when a.id == b.id, whatever the rest holds and
\* whatever was appended to either timeline.
C7_EqualityById ==
  /\ issue_eq(issue, other) <=> (issue.id = other.id)
  /\ issue_eq(other, issue) <=> (issue.id = other.id)

\* two Issues with one id but different titles and timelines compare equal
C7_Witness ==
  /\ issue.id = other.id
  /\ issue.title # other.title
  /\ issue.events # other.events
  /\ Len(issue.events) > 0
  /\ issue_eq(issue, other)

----------------------------------------------------------------------------
(* SpecPayload: one event payload handed to the two payload decoders *)

GoodTime == strftime([sec |-> 0, nsec |-> 0])

StringOrNot(text) == {Absent, JNumber, JString(text)}
TimeFields == {Absent, JNumber, JString(GoodTime), JString("yesterday")}
EnabledFields == {Absent, JString("true"), JBoolean(TRUE), JBoolean(FALSE)}

\* every combination of missing, mistyped and well-typed fields
Payloads ==
  { [k \in Keys |->
       CASE k = BODY_KEY -> body
         [] k = TIME_KEY -> time
         [] k = AUTHOR_KEY -> author
         [] k = BRANCH_KEY -> branch
         [] k = ID_KEY -> id
         [] k = NAME_KEY -> name
         [] k = ENABLED_KEY -> enabled
         [] OTHER -> Absent] :
      body \in StringOrNot("Body"), time \in TimeFields,
      author \in StringOrNot("Author"), branch \in StringOrNot("master"),
      id \in StringOrNot("77"), name \in StringOrNot("x"),
      enabled \in EnabledFields }

\* the variables of Idle, but for json and pc
IdleOuts ==
  /\ comment_out = None /\ tag_out = None /\ events_out = <<>>
  /\ bare_out = None /\ wrapped_out = None /\ issue_out = NoOutcome
  /\ args = <<>> /\ iter = 0 /\ issues = <<>> /\ stateMachine = NoFlags /\ finalFlags = NoFlags
  /\ ret = -1 /\ store = NoStore

InitPayload ==
  /\ issue = Issue_new("Foo", "Body", "Author", "master", Clock0, Clock0)
  /\ other = issue
  /\ clock \in Clocks
  /\ json \in {JObj(p) : p \in Payloads}
  /\ pc = "idle"
  /\ IdleOuts

ReadComment ==
  /\ pc = "idle"
  /\ comment_out' = IssueComment_read_from_map(json.map, clock)
  /\ pc' = "comment"
  /\ UNCHANGED <<issue, other, clock, json, tag_out, events_out, bare_out,
                 wrapped_out, issue_out, args, iter, issues, stateMachine, finalFlags, ret,
                 store>>

ReadTag ==
  /\ pc = "idle"
  /\ tag_out' = IssueTag_read_from_map(json.map)
  /\ pc' = "tag"
  /\ UNCHANGED <<issue, other, clock, json, comment_out, events_out, bare_out,
                 wrapped_out, issue_out, args, iter, issues, stateMachine, finalFlags, ret,
                 store>>

NextPayload == ReadComment \/ ReadTag

SpecPayload == InitPayload /\ [][NextPayload]_vars

IsString(map, k) == map[k].ty = "String"

\* C5 as stated: an event is returned only when every field of the persisted
\* key set is present and well-typed (Comment: bodyText, time, author, branch,
\* id; Tag: time, author, name, enabled, id).
C5_NothingOnAnyBadField ==
  /\ (pc = "comment" /\ comment_out.some) =>
       \A k \in {BODY_KEY, TIME_KEY, AUTHOR_KEY, BRANCH_KEY, ID_KEY} :
         IsString(json.map, k)
  /\ (pc = "tag" /\ tag_out.some) =>
       /\ \A k \in {TIME_KEY, AUTHOR_KEY, NAME_KEY, ID_KEY} : IsString(json.map, k)
       /\ json.map[ENABLED_KEY].ty = "Boolean"

\* C5 amended: a Comment is returned only when bodyText, time, author and
\* branch are strings, a Tag only when time, author, name, id are strings and
\* enabled is a boolean; with those in place and the time text in TIME_FORMAT
\* the event is returned, a Comment without a string id getting a generated id.
C5_NothingOnBadRequiredField ==
  /\ pc = "comment" =>
       /\ comment_out.some <=>
            /\ \A k \in {BODY_KEY, TIME_KEY, AUTHOR_KEY, BRANCH_KEY} :
                 IsString(json.map, k)
            /\ strptime(json.map[TIME_KEY].s).ok
       /\ comment_out.some =>
            comment_out.v.id = IF IsString(json.map, ID_KEY)
                               THEN json.map[ID_KEY].s
                               ELSE generate_id(clock)
  /\ pc = "tag" =>
       tag_out.some <=>
         /\ \A k \in {TIME_KEY, AUTHOR_KEY, NAME_KEY, ID_KEY} : IsString(json.map, k)
         /\ json.map[ENABLED_KEY].ty = "Boolean"
         /\ strptime(json.map[TIME_KEY].s).ok

\* a Comment payload without id is decoded and carries a generated id
C5_Witness ==
  /\ pc = "comment" /\ json.map[ID_KEY].ty = "Absent" /\ comment_out.some
  /\ clock.nsec = 1 /\ comment_out.v.id = "01"

----------------------------------------------------------------------------
(* SpecTimeline: a persisted timeline array handed to Issue::load_events *)

GoodCommentMap ==
  [EmptyMap EXCEPT ![BODY_KEY] = JString("Body"), ![TIME_KEY] = JString(GoodTime),
                   ![AUTHOR_KEY] = JString("Author"), ![BRANCH_KEY] = JString("master"),
                   ![ID_KEY] = JString("77")]

GoodTagMap ==
  [EmptyMap EXCEPT ![TIME_KEY] = JString(GoodTime), ![AUTHOR_KEY] = JString("Author"),
                   ![NAME_KEY] = JString("x"), ![ENABLED_KEY] = JBoolean(TRUE),
                   ![ID_KEY] = JString("78")]

\* entries of a timeline array: [kind, payload] pairs, bare legacy payloads,
\* and what a damaged file may hold in their place
Entries ==
  { JArr(<<JStr("tag"), JObj(GoodTagMap)>>),
    JArr(<<JStr("tag"), JObj([GoodTagMap EXCEPT ![NAME_KEY] = Absent])>>),
    JArr(<<JStr("comment"), JObj(GoodCommentMap)>>),
    JArr(<<JStr("comment"), JObj([GoodCommentMap EXCEPT ![ID_KEY] = Absent])>>),
    JObj(GoodCommentMap),
    JObj(GoodTagMap),
    JArr(<<JStr("label"), JObj(GoodTagMap)>>),
    JArr(<<JNum, JObj(GoodCommentMap)>>),
    JArr(<<JStr("comment")>>),
    JArr(<<JStr("comment"), JObj(GoodCommentMap), JObj(GoodCommentMap)>>),
    JArr(<<JStr("comment"), JNum>>),
    JNum }

BoundedSeq(S, n) == UNION {[1..k -> S] : k \in 0..n}

TimelineInputs ==
  {JArr(l) : l \in BoundedSeq(Entries, MaxEntries)}
    \cup {JNum, JStr("comment"), JObj(GoodCommentMap)}

InitTimeline ==
  /\ issue = Issue_new("Foo", "Body", "Author", "master", Clock0, Clock0)
  /\ other = issue
  /\ clock = Clock0
  /\ json \in TimelineInputs
  /\ pc = "idle"
  /\ IdleOuts

\* the clock does not run backwards while the entries are decoded
ClockReads(n, from) ==
  {r \in [1..n -> from..MaxClock] : \A i \in 1..n - 1 : r[i] <= r[i + 1]}

LoadEvents ==
  /\ pc = "idle"
  /\ \E reads \in ClockReads(Len(json.list), clock.nsec) :
       /\ events_out' = load_events(json, reads)
       /\ clock' = IF Len(json.list) = 0 THEN clock
                   ELSE [clock EXCEPT !.nsec = reads[Len(json.list)]]
  /\ pc' = "loaded"
  /\ UNCHANGED <<issue, other, json, comment_out, tag_out, bare_out,
                 wrapped_out, issue_out, args, iter, issues, stateMachine, finalFlags, ret,
                 store>>

NextTimeline == LoadEvents

SpecTimeline == InitTimeline /\ [][NextTimeline]_vars

\* a payload holding what a Comment needs (the id may be missing, see C5)
WellFormedComment(j) ==
  /\ j.ty = "Object"
  /\ \A k \in {BODY_KEY, TIME_KEY, AUTHOR_KEY, BRANCH_KEY} : IsString(j.map, k)
  /\ strptime(j.map[TIME_KEY].s).ok

WellFormedTag(j) ==
  /\ j.ty = "Object"
  /\ \A k \in {TIME_KEY, AUTHOR_KEY, NAME_KEY, ID_KEY} : IsString(j.map, k)
  /\ j.map[ENABLED_KEY].ty = "Boolean"
  /\ strptime(j.map[TIME_KEY].s).ok

IsPair(e, kind) ==
  e.ty = "Array" /\ Len(e.list) = 2 /\ e.list[1].ty = "String" /\ e.list[1].s = kind

WellFormedEntry(e) ==
  \/ IsPair(e, "comment") /\ WellFormedComment(e.list[2])
  \/ IsPair(e, "tag") /\ WellFormedTag(e.list[2])
  \/ e.ty = "Object" /\ WellFormedComment(e)

\* the event carries the fields written in the entry
CommentCarries(c, map) ==
  /\ c.body_text = map[BODY_KEY].s /\ c.author = map[AUTHOR_KEY].s
  /\ c.branch = map[BRANCH_KEY].s /\ strftime(c.creation_time) = map[TIME_KEY].s
  /\ IsString(map, ID_KEY) => c.id = map[ID_KEY].s

TagCarries(t, map) ==
  /\ t.tag_name = map[NAME_KEY].s /\ t.author = map[AUTHOR_KEY].s
  /\ t.enabled = map[ENABLED_KEY].b /\ t.change_id = map[ID_KEY].s
  /\ strftime(t.time) = map[TIME_KEY].s

EventCarries(evt, e) ==
  IF IsPair(e, "tag")
  THEN evt.kind = "tag" /\ TagCarries(evt.tag, e.list[2].map)
  ELSE /\ evt.kind = "comment"
       /\ CommentCarries(evt.comment, IF e.ty = "Object" THEN e.map ELSE e.list[2].map)

\* C8: load_events returns exactly the well-formed entries of the array, in
\* their order, whatever malformed entries stand between them, and an empty
\* list for an input that is no array.
C8_MalformedEntriesDropped ==
  pc = "loaded" =>
    IF json.ty # "Array" THEN events_out = <<>>
    ELSE LET W == {i \in 1..Len(json.list) : WellFormedEntry(json.list[i])}
             Rank(i) == Cardinality({j \in W : j <= i})
         IN  /\ Len(events_out) = Cardinality(W)
             /\ \A i \in W : EventCarries(events_out[Rank(i)], json.list[i])

\* a Tag payload missing `name` followed by a well-formed Tag: one event
C8_Witness ==
  /\ pc = "loaded" /\ json.ty = "Array" /\ Len(json.list) = 2
  /\ IsPair(json.list[1], "tag") /\ json.list[1].list[2].map[NAME_KEY] = Absent
  /\ IsPair(json.list[2], "tag") /\ WellFormedTag(json.list[2].list[2])
  /\ Len(events_out) = 1 /\ events_out[1].kind = "tag"

----------------------------------------------------------------------------
(* SpecLegacy: one payload decoded bare and wrapped as ["comment", payload] *)

CommentPayloads ==
  {p \in Payloads : p[NAME_KEY] = Absent /\ p[ENABLED_KEY] = Absent}

InitLegacy ==
  /\ issue = Issue_new("Foo", "Body", "Author", "master", Clock0, Clock0)
  /\ other = issue
  /\ clock = Clock0
  /\ json \in {JObj(p) : p \in CommentPayloads} \cup {JNum, JStr("comment")}
  /\ pc = "idle"
  /\ IdleOuts

DecodeBare ==
  /\ pc \in {"idle", "wrapped"}
  /\ bare_out' = IssueTimelineEvent_from_json(json, clock)
  /\ pc' = IF pc = "idle" THEN "bare" ELSE "both"
  /\ UNCHANGED <<issue, other, clock, json, comment_out, tag_out, events_out,
                 wrapped_out, issue_out, args, iter, issues, stateMachine, finalFlags, ret,
                 store>>

DecodeWrapped ==
  /\ pc \in {"idle", "bare"}
  /\ wrapped_out' = IssueTimelineEvent_from_json(JArr(<<JStr("comment"), json>>), clock)
  /\ pc' = IF pc = "idle" THEN "wrapped" ELSE "both"
  /\ UNCHANGED <<issue, other, clock, json, comment_out, tag_out, events_out,
                 bare_out, issue_out, args, iter, issues, stateMachine, finalFlags, ret,
                 store>>

\* time passes between two calls
Tick ==
  /\ clock.nsec < MaxClock
  /\ clock' = [clock EXCEPT !.nsec = @ + 1]
  /\ UNCHANGED <<issue, other, json, pc, comment_out, tag_out, events_out,
                 bare_out, wrapped_out, issue_out, args, iter, issues, stateMachine,
                 finalFlags, ret, store>>

NextLegacy == DecodeBare \/ DecodeWrapped \/ Tick

SpecLegacy == InitLegacy /\ [][NextLegacy]_vars

\* C9 as stated: the bare payload and the wrapped payload decode both to
\* nothing or both to Comments equal in body, time, author, branch and id.
C9_LegacyEqualsWrapped ==
  pc = "both" =>
    /\ bare_out.some <=> wrapped_out.some
    /\ bare_out.some =>
         /\ bare_out.v.kind = "comment" /\ wrapped_out.v.kind = "comment"
         /\ bare_out.v.comment = wrapped_out.v.comment

\* C9 amended: both decode to nothing or both to Comments equal in body, time,
\* author and branch, and equal in id when the payload holds a string id; a
\* payload without one gets an id generated at each decode.
C9_LegacyEqualsWrappedButGeneratedId ==
  pc = "both" =>
    /\ bare_out.some <=> wrapped_out.some
    /\ bare_out.some =>
         LET b == bare_out.v.comment
             w == wrapped_out.v.comment
         IN  /\ bare_out.v.kind = "comment" /\ wrapped_out.v.kind = "comment"
             /\ b.body_text = w.body_text /\ b.creation_time = w.creation_time
             /\ b.author = w.author /\ b.branch = w.branch
             /\ IsString(json.map, ID_KEY) => b.id = w.id /\ b.id = json.map[ID_KEY].s

\* a legacy payload without id decoded twice, the clock having moved between
C9_Witness ==
  /\ pc = "both" /\ bare_out.some /\ wrapped_out.some
  /\ json.map[ID_KEY] = Absent
  /\ bare_out.v.comment.id # wrapped_out.v.comment.id
  /\ bare_out.v.comment.body_text = wrapped_out.v.comment.body_text

----------------------------------------------------------------------------
(* SpecIssue: an Issue written with no_comment_json and read with from_json *)

OtherStatus == [name |-> "closed", last_change_time |-> [sec |-> 0, nsec |-> 1]]

OneComment ==
  <<TimelineComment([creation_time |-> [sec |-> 0, nsec |-> 0], author |-> "Author",
                     body_text |-> "Body", branch |-> "master", id |-> "c1"])>>

IssueSpace ==
  [title : Titles, creation_time : Tms, author : Authors, body_text : Bodies,
   id : {generate_id(c) : c \in Clocks}, events : {<<>>, OneComment},
   branch : Branches, status : {IssueStatus_default, OtherStatus}]

\* the version entry of a file this version of the program did not write
ForeignVersions == {Absent, JNumber, JString("2"), JString("abc")}

InitIssue ==
  /\ issue \in IssueSpace
  /\ other = issue
  /\ clock = Clock0
  /\ json = JNum
  /\ pc = "idle"
  /\ IdleOuts

WriteIssue ==
  /\ pc = "idle"
  /\ json' = no_comment_json(issue)
  /\ pc' = "written"
  /\ UNCHANGED <<issue, other, clock, comment_out, tag_out, events_out,
                 bare_out, wrapped_out, issue_out, args, iter, issues, stateMachine,
                 finalFlags, ret, store>>

\* the file comes from elsewhere: same envelope, another version entry
ForeignVersion ==
  /\ pc = "written"
  /\ \E v \in ForeignVersions : json' = [json EXCEPT !.map[VERSION_KEY] = v]
  /\ pc' = "foreign"
  /\ UNCHANGED <<issue, other, clock, comment_out, tag_out, events_out,
                 bare_out, wrapped_out, issue_out, args, iter, issues, stateMachine,
                 finalFlags, ret, store>>

ReadIssue ==
  /\ pc \in {"written", "foreign"}
  /\ issue_out' = Issue_from_json(json)
  /\ pc' = IF pc = "written" THEN "read" ELSE "read_foreign"
  /\ UNCHANGED <<issue, other, clock, json, comment_out, tag_out, events_out,
                 bare_out, wrapped_out, args, iter, issues, stateMachine, finalFlags, ret,
                 store>>

NextIssue == WriteIssue \/ ForeignVersion \/ ReadIssue

SpecIssue == InitIssue /\ [][NextIssue]_vars

\* C4: an envelope whose version entry is present but is not the supported
\* version decodes to None, without a panic, whatever the entry holds.
C4_UnsupportedVersionIsMiss ==
  (pc = "read_foreign" /\ json.map[VERSION_KEY].ty # "Absent") =>
    ~issue_out.panic /\ ~issue_out.value.some

\* C6: from_json(no_comment_json(issue)) is Some, equal to the issue (by id),
\* with title, author, id and the formatted creation time preserved.
C6_RoundTrip ==
  pc = "read" =>
    /\ ~issue_out.panic
    /\ issue_out.value.some
    /\ LET read_issue == issue_out.value.v
       IN  /\ issue_eq(read_issue, issue)
           /\ read_issue.title = issue.title
           /\ read_issue.author = issue.author
           /\ read_issue.id = issue.id
           /\ strftime(read_issue.creation_time) = strftime(issue.creation_time)

\* an Issue with a body, an event, a status and nanoseconds is read back:
\* same id and formatted time, though body, events and nanoseconds are gone
C6_Witness ==
  /\ pc = "read" /\ issue_out.value.some
  /\ issue.body_text # "" /\ issue.events # <<>> /\ issue.status = OtherStatus
  /\ issue.creation_time.nsec = 1
  /\ issue_out.value.v.creation_time # issue.creation_time
  /\ issue_out.value.v.id = issue.id

----------------------------------------------------------------------------
(* SpecCmd: the comment command, new_comment(args) *)

\* fsm::NextState::Continue
Continue(state) == [next |-> "Continue", state |-> state]

\* std_handler that keeps an identifier fragment once it has one
std_handler_keep_first(flags, arg) ==
  IF flags.issueIdPart.some THEN Continue(flags)
  ELSE Continue([flags EXCEPT !.issueIdPart = Some(arg)])

\* std_handler: every token is an identifier fragment
std_handler(flags, arg) == Continue([flags EXCEPT !.issueIdPart = Some(arg)])

\* fsm::StateMachine::new(std_handler, initial), process and extract_state
StateMachine_new(initial) == initial

StateMachine_process(state, token) ==
  LET outcome == std_handler(state, token)
  IN  IF outcome.next = "Continue" THEN outcome.state ELSE state

StateMachine_extract_state(state) == state

\* comment_on_matching; edited is the answer of commands::edit_file, text the
\* Result of file_util::read_string_from_file
comment_on_matching(matching, author, edited, text, t_now, t_id) ==
  IF ~edited THEN matching
  ELSE IF ~text.some THEN matching
  ELSE LET newComment ==
             TimelineComment(IssueComment_new(author, text.v, "master", t_now, t_id))
           newEvents == Append(matching.events, newComment)
       IN  [matching EXCEPT !.events = newEvents]

\* selection::update_issue: the transform applied to the issue the fragment
\* selects, position m of the collection; m = 0 when it selects none
update_issue(m, collection, author, edited, text, t_now, t_id) ==
  [k \in 1..Len(collection) |->
     IF k = m
     THEN comment_on_matching(collection[k], author, edited, text, t_now, t_id)
     ELSE collection[k]]

Tokens == {"0", "00", "9"}

InitCmd ==
  /\ issue = Issue_new("Foo", "Body", "Author", "master", Clock0, Clock0)
  /\ other = issue
  /\ clock = Clock0
  /\ json = JNum
  /\ pc = "fold"
  /\ comment_out = None /\ tag_out = None /\ events_out = <<>>
  /\ bare_out = None /\ wrapped_out = None /\ issue_out = NoOutcome
  /\ args \in BoundedSeq(Tokens, MaxArgs)
  /\ iter = 0
  /\ issues = <<>>
  /\ stateMachine = StateMachine_new(NoFlags)
  /\ finalFlags = NoFlags
  /\ ret = -1
  /\ store = [disk |-> <<issue>>, reads |-> 0, writes |-> 0]

\* one turn of the loop: stateMachine.process(a) for the next token
Process ==
  /\ pc = "fold" /\ iter < Len(args)
  /\ stateMachine' = StateMachine_process(stateMachine, args[iter + 1])
  /\ iter' = iter + 1
  /\ UNCHANGED <<issue, other, clock, json, pc, comment_out, tag_out,
                 events_out, bare_out, wrapped_out, issue_out, args, issues,
                 finalFlags, ret, store>>

\* the loop is over: extract_state() and the check of the fragment
Extract ==
  /\ pc = "fold" /\ iter = Len(args)
  /\ finalFlags' = StateMachine_extract_state(stateMachine)
  /\ IF ~finalFlags'.issueIdPart.some
     THEN ret' = 1 /\ pc' = "done"
     ELSE ret' = ret /\ pc' = "read"
  /\ UNCHANGED <<issue, other, clock, json, comment_out, tag_out, events_out,
                 bare_out, wrapped_out, issue_out, args, iter, issues,
                 stateMachine, store>>

\* file_manager::read_issues()
ReadIssues ==
  /\ pc = "read"
  /\ issues' = store.disk
  /\ store' = [store EXCEPT !.reads = @ + 1]
  /\ pc' = "update"
  /\ UNCHANGED <<issue, other, clock, json, comment_out, tag_out, events_out,
                 bare_out, wrapped_out, issue_out, args, iter, stateMachine,
                 finalFlags, ret>>

\* selection::update_issue(fragment, issues, comment_on_matching)
UpdateIssue ==
  /\ pc = "update"
  /\ \E m \in 0..Len(issues), edited \in BOOLEAN, text \in {None, Some("Body")} :
       issues' = update_issue(m, issues, "Author", edited, text, clock, clock)
  /\ pc' = "write"
  /\ UNCHANGED <<issue, other, clock, json, comment_out, tag_out, events_out,
                 bare_out, wrapped_out, issue_out, args, iter, stateMachine,
                 finalFlags, ret, store>>

\* file_manager::write_issues(updated): Ok, or Err with the file written or not
WriteIssues ==
  /\ pc = "write"
  /\ \/ /\ store' = [store EXCEPT !.disk = issues, !.writes = @ + 1]
        /\ ret' = 0
     \/ /\ \E disk \in {store.disk, issues} :
             store' = [store EXCEPT !.disk = disk, !.writes = @ + 1]
        /\ ret' = 1
  /\ pc' = "done"
  /\ UNCHANGED <<issue, other, clock, json, comment_out, tag_out, events_out,
                 bare_out, wrapped_out, issue_out, args, iter, issues,
                 stateMachine, finalFlags>>

NextCmd == Process \/ Extract \/ ReadIssues \/ UpdateIssue \/ WriteIssues

SpecCmd == InitCmd /\ [][NextCmd]_vars

\* C10: the fold takes the tokens in input order, one at a time: after k
\* tokens the accumulator holds token k; the extracted flags hold the last
\* token, and no fragment exactly when there was no token; with no token the
\* command ends with a non-zero status and the store neither read nor written.
C10_FoldKeepsLastToken ==
  /\ pc = "fold" =>
       stateMachine.issueIdPart = IF iter = 0 THEN None ELSE Some(args[iter])
  /\ pc # "fold" =>
       /\ iter = Len(args)
       /\ finalFlags.issueIdPart =
            IF args = <<>> THEN None ELSE Some(args[Len(args)])
       /\ ~finalFlags.issueIdPart.some <=> args = <<>>
  /\ (pc # "fold" /\ args = <<>>) =>
       pc = "done" /\ ret = 1 /\ store.reads = 0 /\ store.writes = 0

\* three tokens, the first unlike the last, folded: the flags hold the last
C10_Witness ==
  /\ pc = "done" /\ Len(args) = 3 /\ args[1] # args[3]
  /\ finalFlags.issueIdPart = Some(args[3])
  /\ store.reads = 1 /\ store.writes = 1

----------------------------------------------------------------------------
(* SpecFrame: one Issue under add_comment, add_tag and the comment command's
   transform; pc names the operation that acted last, other keeps the Issue
   as Issue::new made it *)

MaxFrameEvents == 2

InitFrame ==
  /\ issue = Issue_new("Foo", "Body", "Author", "master", Clock0, Clock0)
  /\ other = issue
  /\ clock = Clock0
  /\ json = "none" /\ pc = "created"
  /\ comment_out = None /\ tag_out = None /\ events_out = <<>>
  /\ bare_out = None /\ wrapped_out = None /\ issue_out = NoOutcome
  /\ args = <<>> /\ iter = 0 /\ issues = <<>>
  /\ stateMachine = NoFlags /\ finalFlags = NoFlags
  /\ ret = -1 /\ store = NoStore

FrameAddComment ==
  /\ Len(issue.events) < MaxFrameEvents
  /\ \E c \in Comments : issue' = add_comment(issue, c)
  /\ pc' = "add_comment"
  /\ UNCHANGED <<other, clock, json, comment_out, tag_out, events_out,
                 bare_out, wrapped_out, issue_out, args, iter, issues,
                 stateMachine, finalFlags, ret, store>>

FrameAddTag ==
  /\ Len(issue.events) < MaxFrameEvents
  /\ \E t \in Tags : issue' = add_tag(issue, t)
  /\ pc' = "add_tag"
  /\ UNCHANGED <<other, clock, json, comment_out, tag_out, events_out,
                 bare_out, wrapped_out, issue_out, args, iter, issues,
                 stateMachine, finalFlags, ret, store>>

\* comment_on_matching(issue): the editor gives a body or not, the file reads
\* or not; t is the clock reading of IssueComment::new when it is reached
CommentOnMatching ==
  /\ \E edited \in BOOLEAN, text \in {None, Some("Body")}, t \in Clocks :
       /\ clock.nsec <= t.nsec
       /\ (edited /\ text.some) => Len(issue.events) < MaxFrameEvents
       /\ issue' = comment_on_matching(issue, "Author", edited, text, t, t)
       /\ IF edited /\ text.some
          THEN clock' = t /\ pc' = "commented"
          ELSE clock' = clock /\ pc' = "no_body"
  /\ UNCHANGED <<other, json, comment_out, tag_out, events_out, bare_out,
                 wrapped_out, issue_out, args, iter, issues, stateMachine,
                 finalFlags, ret, store>>

NextFrame == FrameAddComment \/ FrameAddTag \/ CommentOnMatching

SpecFrame == InitFrame /\ [][NextFrame]_vars

\* everything of an Issue but its timeline
FrameOf(self) ==
  <<self.id, self.title, self.author, self.body_text, self.branch,
    self.status, self.creation_time>>

\* what one operation may do to the Issue
FrameStep ==
  /\ FrameOf(issue') = FrameOf(issue)
  /\ pc' \in {"add_comment", "add_tag", "commented"} =>
       /\ Len(issue'.events) = Len(issue.events) + 1
       /\ SubSeq(issue'.events, 1, Len(issue.events)) = issue.events
       /\ issue'.events[Len(issue'.events)].kind =
            IF pc' = "add_tag" THEN "tag" ELSE "comment"
  /\ pc' = "no_body" => issue' = issue

\* C11: add_comment, add_tag and comment_on_matching leave id, title, author,
\* body, branch, status and creation time as they were and the events that
\* were there as a prefix, with exactly one new event at the end;
\* comment_on_matching without a body returns the Issue as it was; the id is
\* always the id assigned at creation.
C11_AppendOnlyFrame ==
  /\ [](issue.id = other.id)
  /\ [][FrameStep]_vars

\* a Tag event, then the comment of the command behind it, then a comment
\* command that got no body: the Issue is the created one plus the two events
C11_Witness ==
  /\ pc = "no_body"
  /\ Len(issue.events) = 2
  /\ issue.events[1].kind = "tag"
  /\ issue.events[2].kind = "comment"
  /\ issue.events[2].comment.id = generate_id(clock)
  /\ clock # Clock0
  /\ FrameOf(issue) = FrameOf(other)

====
